---- MODULE Spec2Model ----
(***************************************************************************)
(* A model of cargo-make-rpm (src/src/main.rs): the Triplet type           *)
(* (from_str, Display, rpm_arch), pad_permission, and the build-then-pack  *)
(* pipeline of main.                                                       *)
(*                                                                         *)
(* Strings are sequences of atoms.  An atom is one character ("-", "h",    *)
(* "f", "6", ...) or a run of non-hyphen characters written as one token   *)
(* ("x86_64", "linux", "gnueabi").  No multi-character atom ends in "hf"   *)
(* or contains "-", so splitting on "-" and the suffix test ends_with("hf")*)
(* act on atom sequences exactly as they act on the characters.            *)
(* Paths are sequences of components; an absolute path starts with "/".    *)
(* Option<T> is a sequence: None is <<>>, Some(x) is <<x>>.                *)
(***************************************************************************)
EXTENDS Integers, Sequences, FiniteSets, TLC

None == <<>>
Some(x) == <<x>>
IsSome(o) == o # <<>>
Unwrap(o) == o[1]

VARIABLES
    \* the Triplet functions applied to one input string
    tpc, s_in, parsed, shown, mapped,
    \* from_str_radix and pad_permission applied to one mode string and path
    apc, a_mode, a_path, a_bits, a_res,
    \* the run of main
    pc, args, manifest, target, triplet, warned, build, idx, cur, rpm,
    rpm_pkg, dirs, files, stats, err

tvars == <<tpc, s_in, parsed, shown, mapped>>
avars == <<apc, a_mode, a_path, a_bits, a_res>>
mvars == <<pc, args, manifest, target, triplet, warned, build, idx, cur, rpm,
           rpm_pkg, dirs, files, stats, err>>
vars == <<tvars, avars, mvars>>

\* ---------------------------------------------------------------- bounds
\* hyphen-delimited segments after the first in an enumerated triplet string
MaxExtraSegs == 4
\* packages in the manifest
MaxMembers == 2
\* declared assets of one package
MaxAssets == 1

\* ------------------------------------------------------- Triplet (90-143)
HYPHEN == "-"
HF == <<"h", "f">>

\* str::split('-'): the segments between hyphens; always at least one segment,
\* and empty segments are kept ("a--b" splits to "a", "", "b").
RECURSIVE SplitFrom(_, _, _)
SplitFrom(s, i, seg) ==
    IF i > Len(s) THEN <<seg>>
    ELSE IF s[i] = HYPHEN THEN <<seg>> \o SplitFrom(s, i + 1, <<>>)
    ELSE SplitFrom(s, i + 1, Append(seg, s[i]))

Split(s) == SplitFrom(s, 1, <<>>)

\* str::ends_with
EndsWith(s, suffix) ==
    /\ Len(s) >= Len(suffix)
    /\ SubSeq(s, Len(s) - Len(suffix) + 1, Len(s)) = suffix

\* Result<T, E>
Ok(v) == [ok |-> TRUE, val |-> v, err |-> <<>>]
Err(e) == [ok |-> FALSE, val |-> <<>>, err |-> e]

\* <Triplet as FromStr>::from_str: the first three segments are arch, vendor
\* and os, the fourth (if any) is libc, further segments are not read.
from_str(s) ==
    LET parts == Split(s) IN
    IF Len(parts) < 1 THEN Err(<<"Invalid target triplet: No arch">>)
    ELSE IF Len(parts) < 2 THEN Err(<<"Invalid target triplet: No vendor">>)
    ELSE IF Len(parts) < 3 THEN Err(<<"Invalid target triplet: No os">>)
    ELSE Ok([arch |-> parts[1], vendor |-> parts[2], os |-> parts[3],
             libc |-> IF Len(parts) >= 4 THEN Some(parts[4]) ELSE None])

\* <Triplet as Display>::fmt
fmt(t) ==
    LET head == t.arch \o <<HYPHEN>> \o t.vendor \o <<HYPHEN>> \o t.os IN
    IF IsSome(t.libc) THEN head \o <<HYPHEN>> \o Unwrap(t.libc) ELSE head

\* Triplet::rpm_arch.  The result is Some(name), None, or a panic: the guard of
\* the "armv7" | "arm" arm unwraps self.libc.  When the guard is false the
\* match falls through to the remaining arms, none of which names arm.
Panic == <<"panic">>
rpm_arch(t) ==
    IF t.arch = <<"x86_64">> THEN Some(<<"x86_64">>)
    ELSE IF t.arch = <<"aarch64">> THEN Some(<<"aarch64">>)
    ELSE IF t.arch \in {<<"armv7">>, <<"arm">>} /\ ~IsSome(t.libc) THEN Panic
    ELSE IF t.arch \in {<<"armv7">>, <<"arm">>} /\ EndsWith(Unwrap(t.libc), HF)
         THEN Some(<<"armhfp">>)
    ELSE IF t.arch = <<"i386">> THEN Some(<<"i386">>)
    ELSE IF t.arch = <<"powerpc64">> THEN Some(<<"ppc64">>)
    ELSE IF t.arch = <<"powerpc64le">> THEN Some(<<"ppc64le">>)
    ELSE IF t.arch = <<"s390x">> THEN Some(<<"s390x">>)
    ELSE None

\* ----------------------------------------- inputs of the Triplet functions
\* Every string is the hyphen-join of its segments, so the strings are
\* enumerated by segment: a first segment and up to MaxExtraSegs more.
ArchSegs ==
    { <<>>, <<"x86_64">>, <<"aarch64">>, <<"armv7">>, <<"arm">>, <<"i386">>,
      <<"powerpc64">>, <<"powerpc64le">>, <<"s390x">>, <<"riscv64gc">> }
RestSegs == { <<>>, <<"unknown">>, <<"linux">>, <<"gnu">>, <<"gnueabi", "h", "f">> }

RECURSIVE JoinSegs(_)
JoinSegs(segs) ==
    IF Len(segs) = 0 THEN <<>>
    ELSE IF Len(segs) = 1 THEN segs[1]
    ELSE segs[1] \o <<HYPHEN>> \o JoinSegs(Tail(segs))

TripletStrings ==
    { JoinSegs(<<a>> \o r) :
        a \in ArchSegs,
        r \in UNION { [1..n -> RestSegs] : n \in 0..MaxExtraSegs } }


InitTriplet ==
    /\ tpc = "input"
    /\ s_in \in TripletStrings
    /\ parsed = None
    /\ shown = None
    /\ mapped = None

\* Triplet::from_str(s)
T_from_str ==
    /\ tpc = "input"
    /\ LET r == from_str(s_in) IN
         /\ parsed' = IF r.ok THEN Some(r.val) ELSE None
         /\ tpc' = IF r.ok THEN "parsed" ELSE "rejected"
    /\ UNCHANGED <<s_in, shown, mapped>>
    /\ UNCHANGED <<avars, mvars>>

\* triplet.to_string()
T_fmt ==
    /\ tpc = "parsed"
    /\ shown' = Some(fmt(Unwrap(parsed)))
    /\ tpc' = "shown"
    /\ UNCHANGED <<s_in, parsed, mapped>>
    /\ UNCHANGED <<avars, mvars>>

\* triplet.rpm_arch()
T_rpm_arch ==
    /\ tpc = "parsed"
    /\ mapped' = Some(rpm_arch(Unwrap(parsed)))
    /\ tpc' = "mapped"
    /\ UNCHANGED <<s_in, parsed, shown>>
    /\ UNCHANGED <<avars, mvars>>


\* ------------------------------------------------ filesystem and paths
\* A path is a sequence of components, each component a string; the root
\* component makes it absolute.
Comp(atom) == <<atom>>
ROOT == Comp("/")
\* Path::is_absolute and PathBuf::join: joining an absolute path replaces the
\* receiver, joining a relative one appends its components.
IsAbsolute(p) == Len(p) > 0 /\ p[1] = ROOT
PathJoin(self, path) == IF IsAbsolute(path) THEN path ELSE self \o path
\* Path::parent
Parent(p) == SubSeq(p, 1, Len(p) - 1)

WS == <<ROOT, Comp("ws")>>
In(dir, atom) == dir \o <<Comp(atom)>>
\* The entries on disk while the tool runs.  A symlink names its target.
Entry(kind) == [kind |-> kind, target |-> <<>>]
Link(to) == [kind |-> "symlink", target |-> to]
FS ==
    (WS :> Entry("dir"))
    @@ (In(WS, "p1") :> Entry("dir"))
    @@ (In(WS, "p2") :> Entry("dir"))
    @@ (In(WS, "p3") :> Entry("dir"))
    @@ (In(WS, "data.txt") :> Entry("file"))
    @@ (In(WS, "share") :> Entry("dir"))
    @@ (In(WS, "link") :> Link(In(WS, "data.txt")))
    @@ (In(WS, "dirlink") :> Link(In(WS, "share")))
    @@ (In(WS, "dangling") :> Link(In(WS, "gone")))
    @@ (In(WS, "loop") :> Link(In(WS, "loop")))
    @@ (In(WS, "pipe") :> Entry("fifo"))
    @@ (In(WS, "pipelink") :> Link(In(WS, "pipe")))
    @@ (In(WS, "sock") :> Entry("socket"))
    @@ (In(WS, "null") :> Entry("chardev"))
    @@ (In(WS, "key.asc") :> Entry("file"))

\* lstat: the kind of the entry at the path itself
Lstat(p) == IF p \in DOMAIN FS THEN FS[p].kind ELSE "missing"

\* stat: the kind of the entry after following symlinks; "missing" for a
\* dangling link, "loop" when the links never end.
RECURSIVE Follow(_, _)
Follow(p, hops) ==
    IF p \notin DOMAIN FS THEN "missing"
    ELSE IF FS[p].kind # "symlink" THEN FS[p].kind
    ELSE IF hops = 0 THEN "loop"
    ELSE Follow(FS[p].target, hops - 1)

Stat(p) == Follow(p, Cardinality(DOMAIN FS))

\* ------------------------------------------------- integers and modes
RECURSIVE BitOr(_, _)
BitOr(a, b) ==
    IF a = 0 THEN b
    ELSE IF b = 0 THEN a
    ELSE (IF a % 2 = 1 \/ b % 2 = 1 THEN 1 ELSE 0) + 2 * BitOr(a \div 2, b \div 2)

U16_MAX == 65535
S_IFREG == \o100000
S_IFDIR == \o040000
S_IFLNK == \o120000
BIN_MODE == \o100755

OctDigit == ("0" :> 0) @@ ("1" :> 1) @@ ("2" :> 2) @@ ("3" :> 3)
            @@ ("4" :> 4) @@ ("5" :> 5) @@ ("6" :> 6) @@ ("7" :> 7)

\* u16::from_str_radix(mode, 8): an optional leading "+", then at least one
\* octal digit; the value must fit 16 bits.
RECURSIVE OctValue(_, _)
OctValue(digits, acc) ==
    IF Len(digits) = 0 THEN Ok(acc)
    ELSE IF digits[1] \notin DOMAIN OctDigit THEN Err(<<"ParseIntError: InvalidDigit">>)
    ELSE IF acc * 8 + OctDigit[digits[1]] > U16_MAX
         THEN Err(<<"ParseIntError: PosOverflow">>)
    ELSE OctValue(Tail(digits), acc * 8 + OctDigit[digits[1]])

from_str_radix(src) ==
    IF Len(src) = 0 THEN Err(<<"ParseIntError: Empty">>)
    ELSE LET digits == IF src[1] = "+" THEN Tail(src) ELSE src IN
         IF Len(digits) = 0 THEN Err(<<"ParseIntError: InvalidDigit">>)
         ELSE OctValue(digits, 0)

\* pad_permission: fs::metadata follows symlinks, so the file type it reports
\* is never a symlink; a missing entry, a dangling link or a link loop is an
\* io::Error.
pad_permission(mode, filepath) ==
    LET ftype == Stat(filepath) IN
    IF ftype \in {"missing", "loop"} THEN Err(<<"io::Error">>)
    ELSE IF ftype = "file" THEN Ok(BitOr(S_IFREG, mode))
    ELSE IF ftype = "dir" THEN Ok(BitOr(S_IFDIR, mode))
    ELSE IF ftype = "symlink" THEN Ok(BitOr(S_IFLNK, mode))
    ELSE Err(<<"invalid file type">>)

\* ------------------------------------------- inputs of pad_permission
ModeStrings ==
    { <<"6", "4", "4">>, <<"7", "5", "5">>, <<"0">>, <<"7", "7", "7">>,
      <<"+", "6", "4", "4">>, <<"4", "7", "5", "5">>,
      <<"4", "0", "6", "4", "4">>, <<"1", "0", "0", "6", "4", "4">>,
      <<"1", "7", "7", "7", "7", "7">>, <<"2", "0", "0", "0", "0", "0">>,
      <<"8">>, <<"r", "w", "x">>, <<"+">>, <<>> }

AssetPaths == DOMAIN FS \cup {In(WS, "gone")}


InitAsset ==
    /\ apc = "input"
    /\ a_mode \in ModeStrings
    /\ a_path \in AssetPaths
    /\ a_bits = None
    /\ a_res = None

\* u16::from_str_radix(mode, 8)?
A_from_str_radix ==
    /\ apc = "input"
    /\ a_bits' = Some(from_str_radix(a_mode))
    /\ apc' = IF from_str_radix(a_mode).ok THEN "mode" ELSE "failed"
    /\ UNCHANGED <<a_mode, a_path, a_res>>
    /\ UNCHANGED <<tvars, mvars>>

\* pad_permission(mode, &filepath)?
A_pad_permission ==
    /\ apc = "mode"
    /\ a_res' = Some(pad_permission(Unwrap(a_bits).val, a_path))
    /\ apc' = IF pad_permission(Unwrap(a_bits).val, a_path).ok THEN "padded" ELSE "failed"
    /\ UNCHANGED <<a_mode, a_path, a_bits>>
    /\ UNCHANGED <<tvars, mvars>>


\* ------------------------------------------------------------ main (158-357)

BIN == <<"bin">>
LIB == <<"lib">>
LINUX == <<"linux">>
GZIP == <<"gzip">>
ZSTD == <<"zstd">>
VERSION == <<"0.1.0">>
PkgNames == << <<"p1">>, <<"p2">>, <<"p3">> >>

\* ---- the inputs of a run: the command line and what cargo metadata reports
X86_LINUX == JoinSegs(<< <<"x86_64">>, <<"unknown">>, LINUX, <<"gnu">> >>)
TargetStrings ==
    { X86_LINUX,
      JoinSegs(<< <<"riscv64gc">>, <<"unknown">>, LINUX, <<"gnu">> >>),
      JoinSegs(<< <<"arm">>, <<"unknown">>, LINUX >>),
      JoinSegs(<< <<"x86_64">>, <<"apple">>, <<"darwin">> >>),
      <<"x86_64">> }

\* rustc --version --verbose, matched against "host: (.*)": nothing when rustc
\* cannot be run or prints no host line
HostReports == { None, Some(X86_LINUX) }

KEY == <<Comp("key.asc")>>

Cli ==
    [ cargo_args : { <<>> },
      compression : { None, Some(ZSTD) },
      package : { None } \cup { Some(PkgNames[i]) : i \in 1..MaxMembers },
      target : { None } \cup { Some(t) : t \in TargetStrings },
      signing_key : { None, Some(KEY) } ]

Target(name, kind) == [name |-> name, kind |-> kind]
TargetLists(name) ==
    { << Target(name, {LIB}) >>, << Target(name, {LIB}), Target(name, {BIN}) >> }

\* the declared assets of the packages of a run: (source, install path, mode)
DeclaredAssets ==
    { << <<Comp("data.txt")>>, <<"/usr/share/data.txt">>, <<"6", "4", "4">> >> }

RPMOptions(assets) ==
    [ compression |-> GZIP,
      signing_key |-> None,
      dependencies |-> Some(<< <<"glibc">> >>),
      conflicts |-> None,
      assets |-> assets,
      preinstall |-> Some(<<"echo pre">>),
      postinstall |-> None,
      preuninstall |-> None,
      postuninstall |-> None ]

MetadataChoices ==
    { None }
    \cup { Some([rpm |-> Some(RPMOptions(Some(a)))]) :
             a \in UNION { [1..n -> DeclaredAssets] : n \in 1..MaxAssets } }

\* cargo reports absolute paths and the workspace root; package names are
\* unique in a workspace.  A package has both license and description, or
\* lacks one of them.  License, description and options are varied on the
\* packages on which the run reads them: those with a bin target, and for the
\* options those that also have a license and a description.
Packages(i) ==
    { p \in
        [ name : { PkgNames[i] },
          version : { VERSION },
          license : { None, Some(<<"MIT">>) },
          description : { None, Some(<<"a tool">>) },
          authors : { << <<"alice">>, <<"bob">> >> },
          targets : TargetLists(PkgNames[i]),
          manifest_path : { WS \o <<PkgNames[i], Comp("Cargo.toml")>> },
          metadata : MetadataChoices,
          homepage : { None },
          repository : { Some(<<"https://example.org/repo">>) } ] :
        /\ IsSome(p.license) \/ IsSome(p.description)
        /\ (\A k \in 1..Len(p.targets) : BIN \notin p.targets[k].kind)
             => IsSome(p.license) /\ IsSome(p.description) /\ ~IsSome(p.metadata)
        /\ IsSome(p.metadata) => IsSome(p.license) /\ IsSome(p.description) }

RECURSIVE PackageListsOf(_)
PackageListsOf(n) ==
    IF n = 0 THEN { <<>> }
    ELSE { Append(ps, p) : ps \in PackageListsOf(n - 1), p \in Packages(n) }

\* cargo metadata fails on a workspace without packages
PackageLists == UNION { PackageListsOf(n) : n \in 1..MaxMembers }

Manifests ==
    [ packages : PackageLists, workspace_root : { Some(WS) } ]

NoCur == [crate_dir |-> <<>>, base |-> <<>>, rpm_path |-> <<>>, arch |-> <<>>,
          t |-> 0, a |-> 0]

InitMain ==
    /\ pc = "Start"
    /\ args \in Cli
    /\ manifest = None
    /\ target = None
    /\ triplet = None
    /\ warned = FALSE
    /\ build = None
    /\ idx = 0
    /\ cur = NoCur
    /\ rpm = None
    /\ rpm_pkg = None
    /\ dirs = {}
    /\ files = <<>>
    /\ stats = <<>>
    /\ err = None

\* `?`: the error is returned from main
Fail(e) == pc' = "Failed" /\ err' = Some(e)
\* unwrap on None: the process aborts
Abort == pc' = "Panicked" /\ err' = Some(<<"called Option::unwrap() on a None value">>)

\* 160-169: cargo metadata, parsed into Manifest
ReadManifest ==
    /\ pc = "Start"
    /\ \/ /\ Fail(<<"io::Error">>)
          /\ UNCHANGED manifest
       \/ /\ Fail(<<"serde_json::Error">>)
          /\ UNCHANGED manifest
       \/ /\ \E m \in Manifests : manifest' = Some(m)
          /\ pc' = "ManifestRead"
          /\ UNCHANGED err
    /\ UNCHANGED <<args, target, triplet, warned, build, idx, cur, rpm,
                   rpm_pkg, dirs, files, stats>>
    /\ UNCHANGED <<tvars, avars>>

\* 170-195: the explicit target, else the host rustc reports; unwrap; parse
ResolveTarget ==
    /\ pc = "ManifestRead"
    /\ \E host \in HostReports :
         LET t == IF IsSome(args.target) THEN args.target ELSE host IN
         /\ target' = t
         /\ IF ~IsSome(t)
            THEN Abort /\ UNCHANGED <<triplet, warned>>
            ELSE LET r == from_str(Unwrap(t)) IN
                 IF ~r.ok
                 THEN Fail(r.err) /\ UNCHANGED <<triplet, warned>>
                 ELSE /\ triplet' = Some(r.val)
                      /\ warned' = (r.val.os # LINUX)
                      /\ pc' = "TargetResolved"
                      /\ UNCHANGED err
    /\ UNCHANGED <<args, manifest, build, idx, cur, rpm, rpm_pkg, dirs, files, stats>>
    /\ UNCHANGED <<tvars, avars>>

\* 197-208: cargo build --release [--target T] [-p P] [args..]
BuildArgv ==
    << <<"build">>, <<"--release">> >>
    \o (IF IsSome(args.target) THEN << <<"--target">>, Unwrap(args.target) >> ELSE <<>>)
    \o (IF IsSome(args.package) THEN << <<"-p">>, Unwrap(args.package) >> ELSE <<>>)
    \o args.cargo_args

\* the exit statuses of cargo build: success, and cargo's failure status
ExitCodes == {0, 101}

\* 209: build.spawn()?.wait()?: an error of spawn or wait is returned; the
\* exit status that wait() returns is dropped
Build ==
    /\ pc = "TargetResolved"
    /\ \/ /\ Fail(<<"io::Error">>)
          /\ UNCHANGED <<build, idx>>
       \/ /\ \E code \in ExitCodes :
               build' = Some([argv |-> BuildArgv, status |-> code])
          /\ pc' = "Built"
          /\ idx' = 1
          /\ UNCHANGED err
    /\ UNCHANGED <<args, manifest, target, triplet, warned, cur, rpm, rpm_pkg,
                   dirs, files, stats>>
    /\ UNCHANGED <<tvars, avars>>

\* ---- the loop over the packages (211-354)
packages == Unwrap(manifest).packages
AtLoopHead == pc \in {"Built", "Written"}
package == packages[idx]

\* 214: the --package filter
Selected(p) == IF IsSome(args.package) THEN p.name = Unwrap(args.package) ELSE TRUE
\* the test of 217-220 applied to the first target alone
HasBin_first(p) == Len(p.targets) > 0 /\ BIN \in p.targets[1].kind

\* 217-220: some target of the package is a "bin"
HasBin(p) == \E i \in 1..Len(p.targets) : BIN \in p.targets[i].kind

\* 356: the packages are exhausted
Finish ==
    /\ AtLoopHead
    /\ idx > Len(packages)
    /\ pc' = "Done"
    /\ UNCHANGED <<args, manifest, target, triplet, warned, build, idx, cur, rpm,
                   rpm_pkg, dirs, files, stats, err>>
    /\ UNCHANGED <<tvars, avars>>

\* 214: the filter drops the package
FilterSkip ==
    /\ AtLoopHead
    /\ idx <= Len(packages)
    /\ ~Selected(package)
    /\ idx' = idx + 1
    /\ UNCHANGED <<pc, args, manifest, target, triplet, warned, build, cur, rpm,
                   rpm_pkg, dirs, files, stats, err>>
    /\ UNCHANGED <<tvars, avars>>

\* 217-223: a package without a bin target is passed over
Continue ==
    /\ AtLoopHead
    /\ idx <= Len(packages)
    /\ Selected(package)
    /\ ~HasBin(package)
    /\ idx' = idx + 1
    /\ UNCHANGED <<pc, args, manifest, target, triplet, warned, build, cur, rpm,
                   rpm_pkg, dirs, files, stats, err>>
    /\ UNCHANGED <<tvars, avars>>

\* 225-232: the workspace root, else the directory of the package's manifest
crate_dir_of(p) ==
    IF IsSome(Unwrap(manifest).workspace_root)
    THEN Unwrap(Unwrap(manifest).workspace_root)
    ELSE Parent(p.manifest_path)

\* 234-237: target/<--target or nothing>/release under crate_dir
base_of(p) ==
    PathJoin(crate_dir_of(p),
             <<Comp("target")>>
             \o (IF IsSome(args.target) THEN <<Unwrap(args.target)>> ELSE <<>>)
             \o <<Comp("release")>>)

\* 239
rpm_path_of(p) == PathJoin(base_of(p), <<Comp(".."), Comp("rpm")>>)

\* 246
options_of(p) == IF IsSome(p.metadata) THEN Unwrap(p.metadata).rpm ELSE None

\* 258-270: the command line's compression, else the package's, else the default
compression_of(p) ==
    IF IsSome(args.compression) THEN Unwrap(args.compression)
    ELSE IF IsSome(options_of(p)) THEN Unwrap(options_of(p)).compression
    ELSE GZIP

\* Vec<String>::join(", ")
RECURSIVE JoinComma(_)
JoinComma(ss) ==
    IF Len(ss) = 0 THEN <<>>
    ELSE IF Len(ss) = 1 THEN ss[1]
    ELSE ss[1] \o <<", ">> \o JoinComma(Tail(ss))

\* 248-282: RPMBuilder::new(..) with compression, vendor, url and vcs
NewBuilder(p, arch) ==
    [ name |-> p.name,
      version |-> p.version,
      license |-> Unwrap(p.license),
      arch |-> arch,
      description |-> Unwrap(p.description),
      compression |-> compression_of(p),
      vendor |-> IF Len(p.authors) > 0 THEN Some(JoinComma(p.authors)) ELSE None,
      url |-> p.homepage,
      vcs |-> IF IsSome(p.repository) THEN Some(<<"git:">> \o Unwrap(p.repository)) ELSE None,
      files |-> <<>>,
      scripts |-> <<>>,
      requires |-> <<>>,
      conflicts |-> <<>> ]

\* 251: package.license.as_ref().ok_or("Missing license")
MissingLicense(p) == <<"Missing license">>
\* 256: .ok_or(format!("Missing description in crate {}", package.name))
MissingDescription(p) == <<"Missing description in crate ">> \o p.name

\* 225-282: the directories, the architecture, the builder.  create_dir_all
\* comes first; then rpm_arch, license and description are required in turn.
BeginPackage ==
    /\ AtLoopHead
    /\ idx <= Len(packages)
    /\ Selected(package)
    /\ HasBin(package)
    /\ \E mkdir_ok \in BOOLEAN, compressor_ok \in BOOLEAN :
         LET p == package
             arch == rpm_arch(Unwrap(triplet)) IN
         /\ dirs' = IF mkdir_ok THEN dirs \cup {rpm_path_of(p)} ELSE dirs
         /\ IF ~mkdir_ok
            THEN Fail(<<"io::Error">>) /\ UNCHANGED <<cur, rpm>>
            ELSE IF arch = Panic
            THEN Abort /\ UNCHANGED <<cur, rpm>>
            ELSE IF ~IsSome(arch)
            THEN /\ Fail(<<"Unsupported target arch: ">> \o Unwrap(triplet).arch)
                 /\ UNCHANGED <<cur, rpm>>
            ELSE IF ~IsSome(p.license)
            THEN Fail(MissingLicense(p)) /\ UNCHANGED <<cur, rpm>>
            ELSE IF ~IsSome(p.description)
            THEN Fail(MissingDescription(p)) /\ UNCHANGED <<cur, rpm>>
            ELSE IF ~compressor_ok
            THEN Fail(<<"rpm::Error">>) /\ UNCHANGED <<cur, rpm>>
            ELSE /\ cur' = [crate_dir |-> crate_dir_of(p), base |-> base_of(p),
                            rpm_path |-> rpm_path_of(p), arch |-> Unwrap(arch),
                            t |-> 1, a |-> 1]
                 /\ rpm' = Some(NewBuilder(p, Unwrap(arch)))
                 /\ pc' = "Binaries"
                 /\ UNCHANGED err
    /\ UNCHANGED <<args, manifest, target, triplet, warned, build, idx, rpm_pkg,
                   files, stats>>
    /\ UNCHANGED <<tvars, avars>>

FileEntry(source, dest, mode) == [source |-> source, dest |-> dest, mode |-> mode]
WithFile(b, f) == [b EXCEPT !.files = Append(@, f)]

\* 284-293: one target of the package; a bin is added at /usr/bin/<name>
AddBinary ==
    /\ pc = "Binaries"
    /\ cur.t <= Len(package.targets)
    /\ LET tg == package.targets[cur.t] IN
       \E with_file_ok \in BOOLEAN :
         IF BIN \in tg.kind /\ ~with_file_ok
         THEN Fail(<<"rpm::Error">>) /\ UNCHANGED <<cur, rpm>>
         ELSE /\ rpm' = IF BIN \in tg.kind
                        THEN Some(WithFile(Unwrap(rpm),
                                 FileEntry(PathJoin(cur.base, <<tg.name>>),
                                           <<"/usr/bin/">> \o tg.name, BIN_MODE)))
                        ELSE rpm
              /\ cur' = [cur EXCEPT !.t = @ + 1]
              /\ UNCHANGED <<pc, err>>
    /\ UNCHANGED <<args, manifest, target, triplet, warned, build, idx, rpm_pkg,
                   dirs, files, stats>>
    /\ UNCHANGED <<tvars, avars>>

Script(kind, body) == IF IsSome(body) THEN << <<kind, Unwrap(body)>> >> ELSE <<>>
Names(list) == IF IsSome(list) THEN Unwrap(list) ELSE <<>>

\* 295-322: the scripts, the dependencies and the conflicts of the options
ApplyOptions ==
    /\ pc = "Binaries"
    /\ cur.t > Len(package.targets)
    /\ LET o == options_of(package) IN
       /\ rpm' = IF IsSome(o)
                 THEN Some([Unwrap(rpm) EXCEPT
                        !.scripts = Script("pre_install", Unwrap(o).preinstall)
                                    \o Script("post_install", Unwrap(o).postinstall)
                                    \o Script("pre_uninstall", Unwrap(o).preuninstall)
                                    \o Script("post_uninstall", Unwrap(o).postuninstall),
                        !.requires = Names(Unwrap(o).dependencies),
                        !.conflicts = Names(Unwrap(o).conflicts)])
                 ELSE rpm
       /\ pc' = "Assets"
    /\ UNCHANGED <<args, manifest, target, triplet, warned, build, idx, cur,
                   rpm_pkg, dirs, files, stats, err>>
    /\ UNCHANGED <<tvars, avars>>

\* 324: the assets the package declares
assets_of(p) ==
    IF IsSome(options_of(p)) /\ IsSome(Unwrap(options_of(p)).assets)
    THEN Unwrap(Unwrap(options_of(p)).assets)
    ELSE <<>>

\* 326: PathBuf::from(filename).join(&crate_dir)
asset_filepath(filename, crate_dir) == PathJoin(filename, crate_dir)

\* 325-332: one declared asset: the mode is parsed, the path is stat-ed by
\* pad_permission, the file is added
AddAsset ==
    /\ pc = "Assets"
    /\ cur.a <= Len(assets_of(package))
    /\ LET asset == assets_of(package)[cur.a]
           filepath == asset_filepath(asset[1], cur.crate_dir)
           mode == from_str_radix(asset[3])
           padded == pad_permission(mode.val, filepath) IN
       \E with_file_ok \in BOOLEAN :
         /\ stats' = IF mode.ok
                     THEN Append(stats, [member |-> idx, asset |-> cur.a,
                                         path |-> filepath])
                     ELSE stats
         /\ IF ~mode.ok
            THEN Fail(mode.err) /\ UNCHANGED <<cur, rpm>>
            ELSE IF ~padded.ok
            THEN Fail(padded.err) /\ UNCHANGED <<cur, rpm>>
            ELSE IF ~with_file_ok
            THEN Fail(<<"rpm::Error">>) /\ UNCHANGED <<cur, rpm>>
            ELSE /\ rpm' = Some(WithFile(Unwrap(rpm),
                                  FileEntry(filepath, asset[2], padded.val)))
                 /\ cur' = [cur EXCEPT !.a = @ + 1]
                 /\ UNCHANGED <<pc, err>>
    /\ UNCHANGED <<args, manifest, target, triplet, warned, build, idx, rpm_pkg,
                   dirs, files>>
    /\ UNCHANGED <<tvars, avars>>

\* 334: the specification of the package is complete
AssetsDone ==
    /\ pc = "Assets"
    /\ cur.a > Len(assets_of(package))
    /\ pc' = "SpecAssembled"
    /\ UNCHANGED <<args, manifest, target, triplet, warned, build, idx, cur, rpm,
                   rpm_pkg, dirs, files, stats, err>>
    /\ UNCHANGED <<tvars, avars>>

\* 336-339: the command line's key, else the package's
signing_key_of(p) ==
    IF IsSome(args.signing_key) THEN args.signing_key
    ELSE IF IsSome(options_of(p)) THEN Unwrap(options_of(p)).signing_key
    ELSE None

\* fs::read: the content of a regular file (symlinks followed)
CanRead(path) == Stat(path) = "file"

\* 341-346: with a key, the key file is read at PathBuf::from(key).join(crate_dir)
\* and the package is built and signed; without one it is built
Sign ==
    /\ pc = "SpecAssembled"
    /\ LET key == signing_key_of(package) IN
       \E load_ok \in BOOLEAN, build_ok \in BOOLEAN :
         IF IsSome(key) /\ ~CanRead(PathJoin(Unwrap(key), cur.crate_dir))
         THEN Fail(<<"io::Error">>) /\ UNCHANGED rpm_pkg
         ELSE IF IsSome(key) /\ ~load_ok
         THEN Fail(<<"rpm::Error">>) /\ UNCHANGED rpm_pkg
         ELSE IF ~build_ok
         THEN Fail(<<"rpm::Error">>) /\ UNCHANGED rpm_pkg
         ELSE /\ rpm_pkg' = Some([spec |-> Unwrap(rpm), signed |-> IsSome(key)])
              /\ pc' = IF IsSome(key) THEN "Signed" ELSE "Unsigned"
              /\ UNCHANGED err
    /\ UNCHANGED <<args, manifest, target, triplet, warned, build, idx, cur, rpm,
                   dirs, files, stats>>
    /\ UNCHANGED <<tvars, avars>>

\* 348-351: <name>-<version>.<arch>.rpm in the rpm directory
rpm_file_name(name, version, arch) ==
    name \o <<"-">> \o version \o <<".">> \o arch \o <<".rpm">>

\* 348-353: the file is created (or truncated), then the package is written
Write ==
    /\ pc \in {"Signed", "Unsigned"}
    /\ LET path == PathJoin(cur.rpm_path,
                            <<rpm_file_name(package.name, package.version, cur.arch)>>) IN
       \E create_ok \in BOOLEAN, write_ok \in BOOLEAN :
         IF ~create_ok
         THEN Fail(<<"io::Error">>) /\ UNCHANGED <<files, idx>>
         ELSE /\ files' = Append(files, [path |-> path, member |-> idx,
                                         written |-> write_ok])
              /\ IF write_ok
                 THEN pc' = "Written" /\ idx' = idx + 1 /\ UNCHANGED err
                 ELSE Fail(<<"io::Error">>) /\ UNCHANGED idx
    /\ UNCHANGED <<args, manifest, target, triplet, warned, build, cur, rpm,
                   rpm_pkg, dirs, stats>>
    /\ UNCHANGED <<tvars, avars>>

\* ------------------------------------------------------ the specifications
IdleTriplet ==
    /\ tpc = "idle" /\ s_in = <<>> /\ parsed = None /\ shown = None /\ mapped = None
IdleAsset ==
    /\ apc = "idle" /\ a_mode = <<>> /\ a_path = <<>> /\ a_bits = None /\ a_res = None
IdleMain ==
    /\ pc = "idle" /\ args = None /\ manifest = None /\ target = None
    /\ triplet = None /\ warned = FALSE /\ build = None /\ idx = 0 /\ cur = NoCur
    /\ rpm = None /\ rpm_pkg = None /\ dirs = {} /\ files = <<>> /\ stats = <<>>
    /\ err = None

\* a run of main
Init == InitMain /\ IdleTriplet /\ IdleAsset
Next ==
    \/ ReadManifest \/ ResolveTarget \/ Build
    \/ Finish \/ FilterSkip \/ Continue
    \/ BeginPackage \/ AddBinary \/ ApplyOptions \/ AddAsset \/ AssetsDone
    \/ Sign \/ Write
Spec == Init /\ [][Next]_vars

\* the Triplet functions on every enumerated string
TripletInit == InitTriplet /\ IdleAsset /\ IdleMain
TripletNext == T_from_str \/ T_fmt \/ T_rpm_arch
SpecTriplet == TripletInit /\ [][TripletNext]_vars

\* from_str_radix and pad_permission on every enumerated mode and path
AssetInit == InitAsset /\ IdleTriplet /\ IdleMain
AssetNext == A_from_str_radix \/ A_pad_permission
SpecAsset == AssetInit /\ [][AssetNext]_vars

\* ============================================================ properties
Terminated == pc \in {"Done", "Failed", "Panicked"}
PackagingStages == {"Binaries", "Assets", "SpecAssembled", "Signed", "Unsigned", "Written"}

\* ---- C1
\* C1: once the build step has exited with a nonzero status no packaging step
\* happens: the run is in no packaging stage and does not end in Done, no rpm
\* directory has been created and no artifact file has been created.
C1_BuildFailureIsFatal ==
    (IsSome(build) /\ Unwrap(build).status # 0)
        => /\ pc \notin PackagingStages \cup {"Done"}
           /\ dirs = {}
           /\ files = <<>>

\* ---- C2
S_IFMT == \o170000
RECURSIVE BitAnd(_, _)
BitAnd(a, b) ==
    IF a = 0 \/ b = 0 THEN 0
    ELSE (IF a % 2 = 1 /\ b % 2 = 1 THEN 1 ELSE 0) + 2 * BitAnd(a \div 2, b \div 2)

TypeBitsOf(kind) ==
    IF kind = "file" THEN S_IFREG
    ELSE IF kind = "dir" THEN S_IFDIR
    ELSE IF kind = "symlink" THEN S_IFLNK
    ELSE 0

\* C2: for an accepted mode string, the mode computed for a path has in its
\* file-type field the type of the entry at the path itself (a symlink counts
\* as a symlink), ORed with the requested bits; for a fifo, a socket or a
\* device the computation fails with "invalid file type".
C2_ModeEncodesEntryType ==
    /\ apc = "padded"
        => /\ Lstat(a_path) \in {"file", "dir", "symlink"}
           /\ BitAnd(Unwrap(a_res).val, S_IFMT) = TypeBitsOf(Lstat(a_path))
           /\ Unwrap(a_res).val = BitOr(TypeBitsOf(Lstat(a_path)), Unwrap(a_bits).val)
    /\ (IsSome(a_res) /\ Lstat(a_path) \in {"fifo", "socket", "chardev"})
        => /\ apc = "failed"
           /\ Unwrap(a_res).err = <<"invalid file type">>

\* ---- C3
\* C3: every path stat-ed for a declared asset is crate_dir followed by the
\* declared source, and the entries added for assets have that path as source
\* and the declared install path as destination.
C3_AssetResolvedUnderCrateDir ==
    /\ \A i \in 1..Len(stats) :
         LET p == packages[stats[i].member] IN
         stats[i].path = crate_dir_of(p) \o assets_of(p)[stats[i].asset][1]
    /\ pc = "Assets"
        => LET fs == Unwrap(rpm).files
               n == cur.a - 1 IN
           \A j \in 1..n :
             LET f == fs[Len(fs) - n + j]
                 asset == assets_of(package)[j] IN
             /\ f.source = cur.crate_dir \o asset[1]
             /\ f.dest = asset[2]

\* ---- C4
\* C4: when the manifest was read and target resolution yielded no triplet
\* string, the run has ended with an error value returned from main, not a panic.
C4_UnresolvedTargetIsTypedError ==
    (IsSome(manifest) /\ pc # "ManifestRead" /\ ~IsSome(target))
        => pc = "Failed" /\ IsSome(err)

\* ---- C5
\* the table of the strict policy
StrictArch(t) ==
    IF t.arch \in {<<"arm">>, <<"armv7">>}
    THEN IF IsSome(t.libc) /\ EndsWith(Unwrap(t.libc), HF) THEN Some(<<"armhfp">>) ELSE None
    ELSE IF t.arch = <<"powerpc64">> THEN Some(<<"ppc64">>)
    ELSE IF t.arch = <<"powerpc64le">> THEN Some(<<"ppc64le">>)
    ELSE IF t.arch \in {<<"x86_64">>, <<"aarch64">>, <<"i386">>, <<"s390x">>} THEN Some(t.arch)
    ELSE None

\* C5: for every parsed triplet the architecture mapping returns what the
\* strict table says (a name, or unsupported), and never panics.
C5_ArchMappingTotal ==
    tpc = "mapped"
        => /\ Unwrap(mapped) # Panic
           /\ Unwrap(mapped) = StrictArch(Unwrap(parsed))

\* ---- C6
NumSegments(s) == Cardinality({ i \in 1..Len(s) : s[i] = HYPHEN }) + 1

\* C6: a string of fewer than 3 hyphen-delimited segments is rejected, and a
\* triplet that parsing returns has non-empty arch, vendor and os.
C6_ParsedTripletWellFormed ==
    tpc # "input" /\ tpc # "idle"
        => /\ NumSegments(s_in) < 3 => tpc = "rejected"
           /\ IsSome(parsed)
                => /\ Unwrap(parsed).arch # <<>>
                   /\ Unwrap(parsed).vendor # <<>>
                   /\ Unwrap(parsed).os # <<>>

\* ---- C7
\* C7: serializing a parsed triplet gives back the string that was parsed, and
\* x86_64-unknown-linux-gnu parses to x86_64, unknown, linux, gnu.
C7_RoundTrip ==
    /\ tpc = "shown" => Unwrap(shown) = s_in
    /\ (IsSome(parsed) /\ s_in = X86_LINUX)
        => Unwrap(parsed) = [arch |-> <<"x86_64">>, vendor |-> <<"unknown">>,
                             os |-> LINUX, libc |-> Some(<<"gnu">>)]

\* ---- C8
\* a member with a bin target that the --package filter (if any) names
EligibleMatching(p) ==
    /\ \E tg \in { p.targets[i] : i \in 1..Len(p.targets) } : BIN \in tg.kind
    /\ args.package \in {None, Some(p.name)}

ExpectedArtifact(p) ==
    p.name \o <<"-">> \o p.version \o <<".">>
           \o Unwrap(StrictArch(Unwrap(triplet))) \o <<".rpm">>

\* C8: when the run ends in Done, the artifact files written are, in manifest
\* order, exactly one per member that has a bin target and matches the filter,
\* each fully written and named <name>-<version>.<arch>.rpm.
C8_OneArtifactPerEligibleMember ==
    pc = "Done"
        => LET want == SelectSeq([i \in 1..Len(packages) |-> i],
                                 LAMBDA i : EligibleMatching(packages[i])) IN
           /\ Len(files) = Len(want)
           /\ \A k \in 1..Len(want) :
                /\ files[k].member = want[k]
                /\ files[k].written
                /\ files[k].path[Len(files[k].path)] = ExpectedArtifact(packages[want[k]])

\* two eligible members, a filter naming the second, one artifact, named after it
C8_FilteredRunDone ==
    /\ pc = "Done"
    /\ Len(packages) = 2
    /\ EligibleMatching(packages[2])
    /\ HasBin(packages[1])
    /\ args.package = Some(packages[2].name)
    /\ Len(files) = 1
    /\ files[1].path[Len(files[1].path)] = ExpectedArtifact(packages[2])

\* ---- C9
IsMissingField(e) == e[1] \in {"Missing license", "Missing description in crate "}
Mentions(e, name) ==
    \E i \in 1..Len(e) : \E j \in i..Len(e) : SubSeq(e, i, j) = name
LacksField(p) == ~IsSome(p.license) \/ ~IsSome(p.description)

\* C9: a member that lacks license or description gets no builder and no
\* artifact, and the error raised for the missing field names the member.
C9_MissingFieldNamesMember ==
    /\ pc \in PackagingStages \ {"Written"} => ~LacksField(package)
    /\ \A k \in 1..Len(files) : ~LacksField(packages[files[k].member])
    /\ (pc = "Failed" /\ IsMissingField(Unwrap(err)))
        => /\ LacksField(package)
           /\ Mentions(Unwrap(err), package.name)

\* ---- C10
StageRank(st) ==
    IF st = "Start" THEN 0
    ELSE IF st = "ManifestRead" THEN 1
    ELSE IF st = "TargetResolved" THEN 2
    ELSE IF st \in {"Built", "Written"} THEN 3
    ELSE IF st = "Binaries" THEN 4
    ELSE IF st = "Assets" THEN 5
    ELSE IF st = "SpecAssembled" THEN 6
    ELSE IF st \in {"Signed", "Unsigned"} THEN 7
    ELSE 8

\* a step in which a stage reports an error: main is handed an error value,
\* or the build step exits with a nonzero status
ErrorInStep ==
    \/ err' # err
    \/ /\ ~IsSome(build) /\ IsSome(build')
       /\ Unwrap(build').status # 0

\* C10: every step that meets an error ends the run in failure (an abort
\* counts as ending it); no step follows the end of the run; the stages of one
\* member are passed in order, the members in manifest order, and an earlier
\* stage is never entered again (Written is the head of the next member's
\* turn).
C10_LinearPipeline ==
    [][ /\ ErrorInStep => pc' \in {"Failed", "Panicked"}
        /\ Terminated => UNCHANGED vars
        /\ idx' >= idx
        /\ Len(files') >= Len(files)
        /\ (idx' = idx /\ pc' \notin {"Failed", "Panicked", "Done"})
              => StageRank(pc') >= StageRank(pc)
        /\ idx' > idx => pc' \in {"Built", "Written"}
      ]_vars
====
